---------------------------- MODULE Spec2Model ----------------------------
(***************************************************************************)
(* A model of backend/converter.py: the command-line entry point main,     *)
(* the conversion function convert (existence check, read, PDF             *)
(* pass-through, encoding resolution, page rendering) and the line         *)
(* segmenter wrap_lines.                                                   *)
(*                                                                         *)
(* Bytes are naturals 0..255, a byte string is a sequence of bytes, a text *)
(* is a sequence of code points.  A path is a sequence of components.      *)
(***************************************************************************)
EXTENDS Integers, Sequences, FiniteSets, TLC

(***************************************************************************)
(* Program constants.                                                      *)
(***************************************************************************)
MARGIN == 72

LINE_HEIGHT == 14

\* the height of reportlab.lib.pagesizes.LETTER, (612.0, 792.0), that convert unpacks
PageHeight == 792

\* the default of wrap_lines' max_chars parameter
DefaultMaxChars == 100

\* len(sys.argv) that main accepts: the script name and two arguments
ExpectedArgvLen == 3

\* the value main returns after printing the usage message
UsageExit == 1

\* the value main returns from its except clause
FailureExit == 1

\* the value main returns when convert returned
SuccessExit == 0

\* the exit status of the interpreter when an exception leaves main
UncaughtExit == 1

(***************************************************************************)
(* Bounds of the model.                                                    *)
(***************************************************************************)
\* positional arguments on the command line: 0..MaxArgs
MaxArgs == 3

\* length of the enumerated short byte strings
MaxBytes == 2

\* lines of the paginated inputs: 0..MaxLines
MaxLines == 95

\* a long line holds up to MaxChunks full-width chunks (plus or minus one character)
MaxChunks == 2

\* wrap_lines on its own: length of the texts and largest width
MaxWrapText == 4

MaxWidth == 3

(***************************************************************************)
(* Helpers on sequences.                                                   *)
(***************************************************************************)
Min(a, b) == IF a <= b THEN a ELSE b

\* the outcome of a decode: the text, or UnicodeDecodeError
Fail == [ok |-> FALSE, text |-> <<>>]

Ok(t) == [ok |-> TRUE, text |-> t]

None == "None"

\* what a path of the file system holds
Absent == [kind |-> "absent", bytes |-> <<>>, pages |-> <<>>]

Bytes(b) == [kind |-> "bytes", bytes |-> b, pages |-> <<>>]

\* a document written by Canvas.save: its pages, each the strings drawn on it
PdfDoc(pp) == [kind |-> "pdf", bytes |-> <<>>, pages |-> pp]

\* what an interrupted write leaves behind
Partial == [kind |-> "partial", bytes |-> <<>>, pages |-> <<>>]

SeqsUpTo(S, n) == UNION {[1..k -> S] : k \in 0..n}

\* Python's b[lo:hi] for 0 <= lo, 0-based and half-open
Slice(s, lo, hi) == SubSeq(s, lo + 1, Min(hi, Len(s)))

(***************************************************************************)
(* Input classification: data.startswith(b"%PDF-").                        *)
(***************************************************************************)
PdfMagic == <<37, 80, 68, 70, 45>>

StartsWith(b, prefix) ==
    /\ Len(b) >= Len(prefix)
    /\ SubSeq(b, 1, Len(prefix)) = prefix

IsPdfExact(b) == b = PdfMagic

IsPdf(b) == StartsWith(b, PdfMagic)

(***************************************************************************)
(* bytes.decode: the codecs convert tries.  Each returns a text or Fail.   *)
(***************************************************************************)
IsCont(b, i) == i <= Len(b) /\ b[i] >= 128 /\ b[i] <= 191

InRange(b, i, lo, hi) == i <= Len(b) /\ b[i] >= lo /\ b[i] <= hi

\* the number of bytes of the well-formed UTF-8 sequence at b[i], or 0
Utf8SeqLen(b, i) ==
    LET c == b[i] IN
    IF c <= 127 THEN 1
    ELSE IF c >= 194 /\ c <= 223 THEN (IF IsCont(b, i + 1) THEN 2 ELSE 0)
    ELSE IF c >= 224 /\ c <= 239 THEN
        (IF /\ InRange(b, i + 1, IF c = 224 THEN 160 ELSE 128,
                                  IF c = 237 THEN 159 ELSE 191)
            /\ IsCont(b, i + 2)
         THEN 3 ELSE 0)
    ELSE IF c >= 240 /\ c <= 244 THEN
        (IF /\ InRange(b, i + 1, IF c = 240 THEN 144 ELSE 128,
                                  IF c = 244 THEN 143 ELSE 191)
            /\ IsCont(b, i + 2)
            /\ IsCont(b, i + 3)
         THEN 4 ELSE 0)
    ELSE 0

\* the code point of the well-formed sequence of n bytes at b[i]
Utf8CodePoint(b, i, n) ==
    IF n = 1 THEN b[i]
    ELSE IF n = 2 THEN (b[i] - 192) * 64 + (b[i + 1] - 128)
    ELSE IF n = 3 THEN (b[i] - 224) * 4096 + (b[i + 1] - 128) * 64 + (b[i + 2] - 128)
    ELSE (b[i] - 240) * 262144 + (b[i + 1] - 128) * 4096
         + (b[i + 2] - 128) * 64 + (b[i + 3] - 128)

Indices(b) == [i \in 1..Len(b) |-> i]

\* the last byte before b[j] that is no continuation byte, or 0
LeadBefore(b, j) ==
    LET S == {i \in 1..(j - 1) : ~IsCont(b, i)} IN
    IF S = {} THEN 0 ELSE CHOOSE i \in S : \A m \in S : m <= i

\* b[j] is a continuation byte of the well-formed sequence that precedes it
Consumed(b, j) ==
    /\ IsCont(b, j)
    /\ LET i == LeadBefore(b, j) IN i > 0 /\ i + Utf8SeqLen(b, i) > j

\* The decoder scans from the left: a well-formed sequence is decoded and
\* skipped; anything else is an error (strict) or is skipped (ignore).  A
\* well-formed sequence consumes continuation bytes only, so the scan stops at
\* every byte that is not consumed.
Utf8Scan(b, ignore) ==
    LET stops == SelectSeq(Indices(b), LAMBDA j : ~Consumed(b, j))
        good == SelectSeq(stops, LAMBDA j : Utf8SeqLen(b, j) > 0)
    IN  IF ~ignore /\ Len(good) # Len(stops) THEN Fail
        ELSE Ok([k \in 1..Len(good) |-> Utf8CodePoint(b, good[k], Utf8SeqLen(b, good[k]))])

\* errors = "strict"
DecodeUtf8(b) == Utf8Scan(b, FALSE)

\* errors = "ignore"
DecodeUtf8Ignore(b) == Utf8Scan(b, TRUE)

Utf8Bom == <<239, 187, 191>>

DecodeUtf8Sig(b) ==
    IF StartsWith(b, Utf8Bom) THEN DecodeUtf8(SubSeq(b, 4, Len(b))) ELSE DecodeUtf8(b)

\* the 16-bit unit at b[i], b[i+1]
Unit16(b, i, le) == IF le THEN b[i] + 256 * b[i + 1] ELSE 256 * b[i] + b[i + 1]

IsHighSurrogate(u) == u >= 55296 /\ u <= 56319

IsLowSurrogate(u) == u >= 56320 /\ u <= 57343

\* The units of b from byte i on, in the order le: a high surrogate and the
\* low surrogate after it make one code point, any other surrogate and a
\* trailing odd byte are errors.
Utf16From(b, i, le) ==
    LET n == (Len(b) - i + 1) \div 2
        u == [k \in 1..n |-> Unit16(b, i + 2 * (k - 1), le)]
        paired(k) == IsLowSurrogate(u[k]) /\ k > 1 /\ IsHighSurrogate(u[k - 1])
        bad(k) ==
            \/ IsLowSurrogate(u[k]) /\ ~paired(k)
            \/ IsHighSurrogate(u[k]) /\ ~(k < n /\ IsLowSurrogate(u[k + 1]))
        heads == SelectSeq([k \in 1..n |-> k], LAMBDA k : ~IsLowSurrogate(u[k]))
    IN  IF (Len(b) - i + 1) % 2 # 0 \/ \E k \in 1..n : bad(k) THEN Fail
        ELSE Ok([m \in 1..Len(heads) |->
                    LET k == heads[m] IN
                    IF IsHighSurrogate(u[k])
                    THEN 65536 + (u[k] - 55296) * 1024 + (u[k + 1] - 56320)
                    ELSE u[k]])

\* "utf-16": a byte-order mark selects the order and is dropped, otherwise the
\* platform's order (nativeLE) is used
DecodeUtf16(b, nativeLE) ==
    IF StartsWith(b, <<255, 254>>) THEN Utf16From(b, 3, TRUE)
    ELSE IF StartsWith(b, <<254, 255>>) THEN Utf16From(b, 3, FALSE)
    ELSE Utf16From(b, 1, nativeLE)

DecodeAscii(b) == IF \E i \in 1..Len(b) : b[i] > 127 THEN Fail ELSE Ok(b)

\* "latin-1": byte k is code point k
DecodeLatin1(b) == Ok([i \in 1..Len(b) |-> b[i]])

DecodeWith(enc, b, nativeLE) ==
    IF enc = "utf-8-sig" THEN DecodeUtf8Sig(b)
    ELSE IF enc = "utf-16" THEN DecodeUtf16(b, nativeLE)
    ELSE DecodeLatin1(b)

Encodings == <<"utf-8-sig", "utf-16", "latin-1">>

RECURSIVE TryEncodings(_, _, _)
\* the for loop of convert: the first encoding from the k-th on that decodes,
\* as [enc, text], or enc = None (text is None) when the loop runs out
TryEncodings(b, nativeLE, k) ==
    IF k > Len(Encodings) THEN [enc |-> None, text |-> <<>>]
    ELSE LET t == DecodeWith(Encodings[k], b, nativeLE) IN
         IF t.ok THEN [enc |-> Encodings[k], text |-> t.text]
         ELSE TryEncodings(b, nativeLE, k + 1)

\* encoding resolution as a whole: the loop, then the errors="ignore" fallback
ResolveEncoding(b, nativeLE) ==
    LET r == TryEncodings(b, nativeLE, 1) IN
    IF r.enc = None
    THEN [enc |-> "utf-8-ignore", text |-> DecodeUtf8Ignore(b).text]
    ELSE r

(***************************************************************************)
(* str.splitlines and the generator wrap_lines.                            *)
(***************************************************************************)
\* the code points str.splitlines breaks a line at
LineBreaks == {10, 11, 12, 13, 28, 29, 30, 133, 8232, 8233}

IsBreak(c) == c \in LineBreaks

\* the index of the first line break of t at or after j, or Len(t) + 1
BreakAt(t, j) ==
    LET S == {k \in j..Len(t) : IsBreak(t[k])} IN
    IF S = {} THEN Len(t) + 1 ELSE CHOOSE k \in S : \A m \in S : k <= m

\* the index after the line break at e: "\r\n" is one break
AfterBreak(t, e) ==
    IF t[e] = 13 /\ e + 1 <= Len(t) /\ t[e + 1] = 10 THEN e + 2 ELSE e + 1

\* t[e] ends a line: a line break that is not the "\n" of a "\r\n"
EndsLine(t, e) == IsBreak(t[e]) /\ ~(t[e] = 10 /\ e > 1 /\ t[e - 1] = 13)

\* a line starts at j: at the start of t, or right after the break before it
StartsLine(t, j) ==
    \/ j = 1
    \/ \E e \in {j - 2, j - 1} : e >= 1 /\ EndsLine(t, e) /\ AfterBreak(t, e) = j

\* str.splitlines: the lines without their breaks; no line after a final break
SplitLines(t) ==
    LET starts == SelectSeq([j \in 1..Len(t) |-> j], LAMBDA j : StartsLine(t, j)) IN
    [k \in 1..Len(starts) |-> SubSeq(t, starts[k], BreakAt(t, starts[k]) - 1)]

SourceLinesBare(t) == SplitLines(t)

\* text.splitlines() or [""]
SourceLines(t) == IF SplitLines(t) = <<>> THEN << <<>> >> ELSE SplitLines(t)

ChunkOfShort(line, st, max) == Slice(line, st, st + max - 1)

\* line[start : start + max_chars]
ChunkOf(line, st, max) == Slice(line, st, st + max)

RECURSIVE FetchLine(_, _, _)
\* the for loop of wrap_lines at its i-th line, run to the next yield
FetchLine(ls, i, max) ==
    IF i > Len(ls) THEN [idx |-> i, start |-> 0, gpc |-> "done", seg |-> <<>>]
    ELSE IF Len(ls[i]) <= max
         THEN [idx |-> i, start |-> 0, gpc |-> "whole", seg |-> ls[i]]
    ELSE IF 0 < Len(ls[i])
         THEN [idx |-> i, start |-> 0, gpc |-> "chunk", seg |-> ChunkOf(ls[i], 0, max)]
    ELSE FetchLine(ls, i + 1, max)

\* The generator resumed from where it is suspended: "start" (not yet
\* started), "whole" (at the yield of a line that fits), "chunk" (at the yield
\* inside the while loop).  The result is its next suspension, or "done".
GenResume(ls, i, st, at, max) ==
    IF at = "start" THEN FetchLine(ls, 1, max)
    ELSE IF at = "whole" THEN FetchLine(ls, i + 1, max)
    ELSE IF at = "chunk" THEN
        (IF st + max < Len(ls[i])
         THEN [idx |-> i, start |-> st + max, gpc |-> "chunk",
               seg |-> ChunkOf(ls[i], st + max, max)]
         ELSE FetchLine(ls, i + 1, max))
    ELSE [idx |-> i, start |-> st, gpc |-> "done", seg |-> <<>>]

(***************************************************************************)
(* Paths: pathlib's expanduser, resolve, parent, name, exists.             *)
(***************************************************************************)
Cwd == <<"/", "work">>

\* the arguments a command line may hold, as path components
Args == { <<"in.jsf">>, <<"gone.jsf">>, <<"new", "out.pdf">>, <<"~nouser", "x.jsf">> }

\* expanduser raises RuntimeError for a user with no home directory
Unresolvable(arg) == arg[1] = "~nouser"

\* Path(arg).expanduser().resolve() of a relative path
Resolve(arg) == Cwd \o arg

Parent(path) == SubSeq(path, 1, Len(path) - 1)

Name(path) == path[Len(path)]

FilePaths == {Resolve(a) : a \in Args}

\* every directory mkdir(parents=True) creates for d
Ancestors(d) == {SubSeq(d, 1, k) : k \in 1..Len(d)}

ExistsAlways(fs, ds, path) == TRUE

Exists(fs, ds, path) == path \in ds \/ (path \in DOMAIN fs /\ fs[path] # Absent)

(***************************************************************************)
(* The inputs the model draws from.                                        *)
(***************************************************************************)
\* representative bytes: "A", LF, a UTF-8 lead and continuation byte, the two
\* bytes of the UTF-16 byte-order marks
ByteAlphabet == {65, 10, 195, 169, 255, 254}

ShortData == SeqsUpTo(ByteAlphabet, MaxBytes)

\* byte strings the short ones do not reach: UTF-8 byte-order marks, UTF-16
\* with a mark and with surrogate pairs, NEL and CR LF, the PDF signature and
\* its near misses
SpecialData ==
    { <<239, 187, 191>>, <<239, 187, 191, 65>>, <<239, 187, 191, 255>>,
      <<0>>, <<65, 0>>, <<0, 65>>, <<0, 216>>, <<216, 0>>, <<0, 220>>, <<220, 0>>,
      <<255, 254, 65, 0>>, <<254, 255, 0, 65>>, <<0, 216, 0, 220>>,
      <<255, 254, 0, 216, 0, 220>>, <<254, 255, 216, 0, 220, 0>>,
      <<65, 133, 65>>, <<65, 13, 10, 65>>, <<40, 32, 65>>,
      PdfMagic, PdfMagic \o <<49, 46, 52, 10>>, PdfMagic \o <<255, 254>>,
      SubSeq(PdfMagic, 1, 4), SubSeq(PdfMagic, 1, 4) \o <<65>>,
      <<37, 80, 68, 70, 65, 45>>, <<65>> \o PdfMagic,
      <<239, 187, 191>> \o PdfMagic }

\* n lines "A", "B", "C", "A", ... each ended by LF
RepeatedLines(n) == [i \in 1..(2 * n) |-> IF i % 2 = 0 THEN 10 ELSE 65 + ((i \div 2) % 3)]

PagedData == {RepeatedLines(n) : n \in 0..MaxLines}

\* a line of n letters whose i-th letter is determined by i
LongLine(n) == [i \in 1..n |-> 65 + (i % 7)]

LongLens ==
    {n \in 0..(MaxChunks * DefaultMaxChars + 1) :
        \E k \in 0..MaxChunks : \E d \in {-1, 0, 1} : n = k * DefaultMaxChars + d}

LongData ==
    {LongLine(n) : n \in LongLens}
        \cup {LongLine(n) \o <<10>> \o LongLine(m) : n \in LongLens, m \in {0, DefaultMaxChars + 1}}

Data == ShortData \cup SpecialData \cup PagedData \cup LongData

\* main reads len(sys.argv), sys.argv[1] and sys.argv[2] only: the arguments
\* after the second are all taken to be in.jsf
ArgvSet == {a \in SeqsUpTo(Args, MaxArgs) : \A i \in 3..Len(a) : a[i] = <<"in.jsf">>}

(***************************************************************************)
(* The state.                                                              *)
(***************************************************************************)
VARIABLES
    argv,       \* sys.argv[1:], each argument a relative path
    files,      \* the file system: what each path holds
    dirs,       \* the file system: the directories that exist
    pc,         \* where the process is: "main", "convert", "sniff", "open",
                \* "render", "done" (main returned), "crashed" (an exception
                \* left main), "wrap" (wrap_lines called on its own)
    jsf_path,   \* main's resolved paths
    pdf_path,
    data,       \* convert: the bytes read
    text,       \* convert: the decoded text
    encoding,   \* the codec that produced text; None while text is None
    byteorder,  \* the platform's byte order, once a codec has read it
    pages,      \* the canvas: the pages, each the sequence of strings drawn
    y,          \* the page cursor
    lines,      \* wrap_lines: text.splitlines() or [""]
    idx,        \* wrap_lines: the index in lines of the line last yielded from
    start,      \* wrap_lines: start, inside the while loop
    gpc,        \* wrap_lines: where the generator is suspended
    max_chars,  \* wrap_lines: its max_chars argument
    seg,        \* the segment last yielded
    control,    \* who runs: the "consumer" of the generator or the "generator"
    acc,        \* history: the segments yielded from lines[idx], concatenated
    rebuilt,    \* history: acc of every line the generator has left, in order
    stderr,     \* the messages printed to sys.stderr
    exit,       \* the process exit status, -1 while running
    raised,     \* history: the exception raised, if any
    fsops       \* history: the kinds of file-system operations performed

vars == <<argv, files, dirs, pc, jsf_path, pdf_path, data, text, encoding,
          byteorder, pages, y, lines, idx, start, gpc, max_chars, seg, control,
          acc, rebuilt, stderr, exit, raised, fsops>>

envVars == <<argv, files, dirs>>

pathVars == <<jsf_path, pdf_path>>

decodeVars == <<data, text, encoding, byteorder>>

canvasVars == <<pages, y>>

genVars == <<lines, idx, start, gpc, max_chars, seg, control, acc, rebuilt>>

outVars == <<stderr, exit, raised>>

NoExc == [type |-> "none", path |-> <<>>]

Exc(t, path) == [type |-> t, path |-> path]

UsageMsg == [kind |-> "usage", exc |-> NoExc]

\* f"Conversion failed: {exc}"
FailedMsg(e) == [kind |-> "failed", exc |-> e]

\* the interpreter's report of an exception nobody caught
TracebackMsg(e) == [kind |-> "traceback", exc |-> e]

\* FileNotFoundError(f"Missing input: {jsf_path}")
MissingExc(path) == Exc("FileNotFoundError", path)

TopOfPage == PageHeight - MARGIN

TitleAdvanceOne == LINE_HEIGHT

\* y -= LINE_HEIGHT * 2 after the title
TitleAdvance == LINE_HEIGHT * 2

NeedsBreakNever(cursor) == cursor <= 0

\* if y <= MARGIN
NeedsBreak(cursor) == cursor <= MARGIN

WrongArgcOnlyFewer(args) == Len(args) + 1 < ExpectedArgvLen

\* if len(sys.argv) != 3
WrongArgc(args) == Len(args) + 1 # ExpectedArgvLen

TitleDraw(cursor, name) == [y |-> cursor, kind |-> "title", name |-> name, s |-> <<>>]

SegmentDraw(cursor, s) == [y |-> cursor, kind |-> "segment", name |-> "", s |-> s]

InputPath == Resolve(<<"in.jsf">>)

InitialFiles(d) == [p \in FilePaths |-> IF p = InputPath THEN Bytes(d) ELSE Absent]

InitialDirs == {SubSeq(Cwd, 1, k) : k \in 1..Len(Cwd)}

IdleProgram ==
    /\ jsf_path = <<>>
    /\ pdf_path = <<>>
    /\ data = <<>>
    /\ encoding = None
    /\ byteorder = "unread"
    /\ pages = <<>>
    /\ y = 0
    /\ idx = 0
    /\ start = 0
    /\ gpc = "start"
    /\ seg = <<>>
    /\ control = "consumer"
    /\ acc = <<>>
    /\ rebuilt = <<>>
    /\ stderr = <<>>
    /\ exit = -1
    /\ raised = NoExc
    /\ fsops = {}

\* the process is started: a command line, and a file system in which in.jsf
\* exists and holds some bytes
Init ==
    /\ argv \in ArgvSet
    /\ \E d \in Data : files = InitialFiles(d)
    /\ dirs = InitialDirs
    /\ pc = "main"
    /\ text = <<>>
    /\ lines = <<>>
    /\ max_chars = DefaultMaxChars
    /\ IdleProgram

(***************************************************************************)
(* main.                                                                   *)
(***************************************************************************)
\* main's except clause: the message, return 1
Caught(e) ==
    /\ stderr' = Append(stderr, FailedMsg(e))
    /\ exit' = FailureExit
    /\ raised' = e
    /\ pc' = "done"

\* convert returned: return 0
Returned ==
    /\ exit' = SuccessExit
    /\ pc' = "done"
    /\ UNCHANGED <<stderr, raised>>

Usage ==
    /\ pc = "main"
    /\ WrongArgc(argv)
    /\ stderr' = Append(stderr, UsageMsg)
    /\ exit' = UsageExit
    /\ pc' = "done"
    /\ UNCHANGED <<envVars, pathVars, decodeVars, canvasVars, genVars, raised, fsops>>

\* lines 79-80, outside the try statement: an exception of expanduser leaves main
ResolvePaths ==
    /\ pc = "main"
    /\ ~WrongArgc(argv)
    /\ fsops' = fsops \cup {"resolve"}
    /\ IF Unresolvable(argv[1])
       THEN /\ raised' = Exc("RuntimeError", argv[1])
            /\ stderr' = Append(stderr, TracebackMsg(Exc("RuntimeError", argv[1])))
            /\ exit' = UncaughtExit
            /\ pc' = "crashed"
            /\ UNCHANGED pathVars
       ELSE IF Unresolvable(argv[2])
       THEN /\ raised' = Exc("RuntimeError", argv[2])
            /\ stderr' = Append(stderr, TracebackMsg(Exc("RuntimeError", argv[2])))
            /\ exit' = UncaughtExit
            /\ pc' = "crashed"
            /\ jsf_path' = Resolve(argv[1])
            /\ UNCHANGED pdf_path
       ELSE /\ jsf_path' = Resolve(argv[1])
            /\ pdf_path' = Resolve(argv[2])
            /\ pc' = "convert"
            /\ UNCHANGED outVars
    /\ UNCHANGED <<envVars, decodeVars, canvasVars, genVars>>

(***************************************************************************)
(* convert.                                                                *)
(***************************************************************************)
MissingInput ==
    /\ pc = "convert"
    /\ ~Exists(files, dirs, jsf_path)
    /\ fsops' = fsops \cup {"exists"}
    /\ Caught(MissingExc(jsf_path))
    /\ UNCHANGED <<envVars, pathVars, decodeVars, canvasVars, genVars>>

\* read_bytes, which the file system may refuse
ReadBytes ==
    /\ pc = "convert"
    /\ Exists(files, dirs, jsf_path)
    /\ fsops' = fsops \cup {"exists", "read"}
    /\ \E ok \in (IF files[jsf_path].kind = "bytes" THEN BOOLEAN ELSE {FALSE}) :
        IF ok
        THEN /\ data' = files[jsf_path].bytes
             /\ pc' = "sniff"
             /\ UNCHANGED outVars
        ELSE /\ Caught(Exc("OSError", jsf_path))
             /\ UNCHANGED data
    /\ UNCHANGED <<envVars, pathVars, text, encoding, byteorder, canvasVars, genVars>>

\* the input is a PDF: mkdir of the output's parent, shutil.copyfile, return
CopyThrough ==
    /\ pc = "sniff"
    /\ IsPdf(data)
    /\ \E outcome \in {"ok", "mkdir fails", "copy fails", "copy interrupted"} :
        IF outcome = "mkdir fails"
        THEN /\ fsops' = fsops \cup {"mkdir"}
             /\ Caught(Exc("OSError", Parent(pdf_path)))
             /\ UNCHANGED <<files, dirs>>
        ELSE /\ fsops' = fsops \cup {"mkdir", "copy"}
             /\ dirs' = dirs \cup Ancestors(Parent(pdf_path))
             /\ IF jsf_path = pdf_path
                THEN /\ Caught(Exc("SameFileError", pdf_path))
                     /\ UNCHANGED files
                ELSE IF outcome = "ok"
                THEN /\ files' = [files EXCEPT ![pdf_path] = files[jsf_path]]
                     /\ Returned
                ELSE /\ files' = IF outcome = "copy interrupted"
                                 THEN [files EXCEPT ![pdf_path] = Partial]
                                 ELSE files
                     /\ Caught(Exc("OSError", pdf_path))
    /\ UNCHANGED <<argv, pathVars, decodeVars, canvasVars, genVars>>

\* lines 43-51: the loop over the encodings and the fallback
DecodeText ==
    /\ pc = "sniff"
    /\ ~IsPdf(data)
    /\ \E le \in BOOLEAN :
        LET r == ResolveEncoding(data, le) IN
        /\ text' = r.text
        /\ encoding' = r.enc
        /\ byteorder' = IF r.enc = Encodings[1] THEN "unread"
                        ELSE IF le THEN "little" ELSE "big"
    /\ pc' = "open"
    /\ UNCHANGED <<envVars, pathVars, data, canvasVars, genVars, outVars, fsops>>

\* lines 53-63: mkdir, the canvas, the title; wrap_lines(text) is created
OpenDocument ==
    /\ pc = "open"
    /\ fsops' = fsops \cup {"mkdir"}
    /\ \E ok \in BOOLEAN :
        IF ok
        THEN /\ dirs' = dirs \cup Ancestors(Parent(pdf_path))
             /\ pages' = << <<TitleDraw(TopOfPage, Name(jsf_path))>> >>
             /\ y' = TopOfPage - TitleAdvance
             /\ lines' = SourceLines(text)
             /\ pc' = "render"
             /\ UNCHANGED outVars
        ELSE /\ Caught(Exc("OSError", Parent(pdf_path)))
             /\ UNCHANGED <<dirs, pages, y, lines>>
    /\ UNCHANGED <<argv, files, pathVars, decodeVars, idx, start, gpc, max_chars,
                   seg, control, acc, rebuilt>>

\* the generator moves to its next suspension r
GenStep(r) ==
    /\ idx' = r.idx
    /\ start' = r.start
    /\ gpc' = r.gpc
    /\ seg' = r.seg
    /\ rebuilt' = IF gpc \in {"whole", "chunk"} /\ r.idx # idx
                  THEN Append(rebuilt, acc) ELSE rebuilt
    /\ acc' = IF r.gpc = "done" THEN <<>>
              ELSE IF r.idx # idx THEN r.seg
              ELSE acc \o r.seg
    /\ control' = "consumer"
    /\ UNCHANGED <<lines, max_chars>>

\* one iteration of the for loop of lines 63-69
DrawSegment ==
    /\ pc = "render"
    /\ LET r == GenResume(lines, idx, start, gpc, max_chars) IN
        /\ r.gpc # "done"
        /\ GenStep(r)
        /\ IF NeedsBreak(y)
           THEN /\ pages' = Append(pages, <<SegmentDraw(TopOfPage, r.seg)>>)
                /\ y' = TopOfPage - LINE_HEIGHT
           ELSE /\ pages' = [pages EXCEPT ![Len(pages)] = Append(@, SegmentDraw(y, r.seg))]
                /\ y' = y - LINE_HEIGHT
    /\ UNCHANGED <<envVars, pathVars, decodeVars, outVars, fsops, pc>>

\* the generator is exhausted: doc.save() writes the file, convert returns
SaveDocument ==
    /\ pc = "render"
    /\ LET r == GenResume(lines, idx, start, gpc, max_chars) IN
        /\ r.gpc = "done"
        /\ GenStep(r)
    /\ fsops' = fsops \cup {"save"}
    /\ \E outcome \in {"ok", "save fails", "save interrupted"} :
        IF outcome = "ok"
        THEN /\ files' = [files EXCEPT ![pdf_path] = PdfDoc(pages)]
             /\ Returned
        ELSE /\ files' = IF outcome = "save interrupted"
                         THEN [files EXCEPT ![pdf_path] = Partial]
                         ELSE files
             /\ Caught(Exc("OSError", pdf_path))
    /\ UNCHANGED <<argv, dirs, pathVars, decodeVars, canvasVars>>

Next ==
    \/ Usage
    \/ ResolvePaths
    \/ MissingInput
    \/ ReadBytes
    \/ CopyThrough
    \/ DecodeText
    \/ OpenDocument
    \/ DrawSegment
    \/ SaveDocument

Spec == Init /\ [][Next]_vars

(***************************************************************************)
(* wrap_lines called on its own, with any text and any width, and consumed *)
(* to its end.                                                             *)
(***************************************************************************)
WrapTexts == SeqsUpTo({65, 66, 10}, MaxWrapText)

InitWrap ==
    /\ argv = <<>>
    /\ files = InitialFiles(<<>>)
    /\ dirs = InitialDirs
    /\ pc = "wrap"
    /\ IdleProgram
    /\ text \in WrapTexts
    /\ lines = SourceLines(text)
    /\ max_chars \in 0..MaxWidth

\* the consumer calls next(generator): the generator runs
WrapResume ==
    /\ pc = "wrap"
    /\ control = "consumer"
    /\ gpc # "done"
    /\ control' = "generator"
    /\ UNCHANGED <<envVars, pathVars, decodeVars, canvasVars, outVars, fsops, pc,
                   lines, idx, start, gpc, max_chars, seg, acc, rebuilt>>

\* the generator reaches a yield: the consumer has the segment
WrapYield ==
    /\ pc = "wrap"
    /\ control = "generator"
    /\ LET r == GenResume(lines, idx, start, gpc, max_chars) IN
        /\ r.gpc # "done"
        /\ GenStep(r)
    /\ UNCHANGED <<envVars, pathVars, decodeVars, canvasVars, outVars, fsops, pc>>

\* the generator returns: next(generator) raises StopIteration
WrapStop ==
    /\ pc = "wrap"
    /\ control = "generator"
    /\ LET r == GenResume(lines, idx, start, gpc, max_chars) IN
        /\ r.gpc = "done"
        /\ GenStep(r)
    /\ UNCHANGED <<envVars, pathVars, decodeVars, canvasVars, outVars, fsops, pc>>

NextWrap == WrapResume \/ WrapYield \/ WrapStop

SpecWrap == InitWrap /\ [][NextWrap]_vars

\* the consumer keeps asking for the next segment
FairSpecWrap == SpecWrap /\ WF_vars(NextWrap)

(***************************************************************************)
(* Properties.                                                             *)
(***************************************************************************)
\* the bytes start with "%PDF-"
HasPdfSignature(b) ==
    Len(b) >= 5 /\ b[1] = 37 /\ b[2] = 80 /\ b[3] = 68 /\ b[4] = 70 /\ b[5] = 45

\* convert ran the decode step
Decoded == encoding # None

\* the file system is as the process found it
FileSystemUntouched ==
    /\ dirs = InitialDirs
    /\ files[InputPath].kind = "bytes"
    /\ \A p \in FilePaths \ {InputPath} : files[p] = Absent

\* the segments drawn on page p
SegCount(p) == Cardinality({k \in 1..Len(pages[p]) : pages[p][k].kind = "segment"})

RECURSIVE SegTotal(_)
SegTotal(p) == IF p = 0 THEN 0 ELSE SegCount(p) + SegTotal(p - 1)

\* the segments drawn so far
Drawn == SegTotal(Len(pages))

C2_SegmentsRebuildLines ==
    pc \in {"render", "done"} =>
        /\ \A p \in 1..Len(pages) : \A k \in 1..Len(pages[p]) : Len(pages[p][k].s) <= 100
        /\ gpc \in {"whole", "chunk"} =>
              /\ Len(seg) <= 100
              /\ rebuilt = SubSeq(lines, 1, idx - 1)
              /\ acc = SubSeq(lines[idx], 1, Min(start + 100, Len(lines[idx])))
        /\ gpc = "whole" => acc = lines[idx]
        /\ gpc = "done" => rebuilt = lines /\ rebuilt = SourceLines(text)

C2_Witness ==
    /\ pc = "done"
    /\ gpc = "done"
    /\ Len(lines) = 2
    /\ Len(lines[1]) = 201
    /\ Len(lines[2]) = 101
    /\ rebuilt = lines
    /\ Drawn = 5

\* C3: every string is drawn above the bottom margin, the first string of
\* every page is drawn at the top margin, the strings of a page go downwards,
\* and the cursor is one line below the last string drawn (two below the
\* title): a cursor at or below MARGIN is never drawn at, the segment goes to
\* a new page.
C3_NothingBelowMargin ==
    \A p \in 1..Len(pages) :
        /\ pages[p] # <<>>
        /\ pages[p][1].y = PageHeight - MARGIN
        /\ \A k \in 1..Len(pages[p]) :
              /\ pages[p][k].y > MARGIN
              /\ k > 1 => pages[p][k].y < pages[p][k - 1].y
        /\ p < Len(pages) => pages[p][Len(pages[p])].y - LINE_HEIGHT <= MARGIN
        /\ p = Len(pages) =>
              y = pages[p][Len(pages[p])].y
                    - (IF pages[p][Len(pages[p])].kind = "title"
                       THEN 2 * LINE_HEIGHT ELSE LINE_HEIGHT)

C3_Witness ==
    /\ pc = "done"
    /\ exit = SuccessExit
    /\ Len(pages) = 3
    /\ pages[3][1].y = PageHeight - MARGIN
    /\ pages[2][Len(pages[2])].y = 76

\* C4: with two arguments, an exception raised anywhere in the run is caught
\* by main, reported as the one message on the error stream, and main returns
\* non-zero; main returns 0 exactly when nothing was raised.
C4_EveryExceptionCaught ==
    (Len(argv) = 2 /\ pc \in {"done", "crashed"}) =>
        /\ raised # NoExc =>
              /\ pc = "done"
              /\ stderr = <<FailedMsg(raised)>>
              /\ exit # 0
        /\ exit = 0 <=> raised = NoExc

\* C5: when convert has checked an input path that does not exist, the run
\* ends with main returning 1 and the one message naming that path, after no
\* operation on the file system but the resolution and the existence check:
\* no file and no directory is created.
C5_MissingInputReported ==
    (/\ pc \in {"done", "crashed"}
     /\ "exists" \in fsops
     /\ files[jsf_path] = Absent
     /\ jsf_path \notin dirs) =>
        /\ pc = "done"
        /\ exit = 1
        /\ stderr = <<FailedMsg(Exc("FileNotFoundError", jsf_path))>>
        /\ jsf_path = Resolve(argv[1])
        /\ fsops \subseteq {"resolve", "exists"}
        /\ FileSystemUntouched
        /\ ~Decoded
        /\ pages = <<>>

C5_Witness ==
    /\ pc = "done"
    /\ raised = Exc("FileNotFoundError", Resolve(<<"gone.jsf">>))
    /\ pdf_path = Resolve(<<"new", "out.pdf">>)
    /\ Parent(pdf_path) \notin dirs
    /\ exit = 1

\* C6: with any number of arguments but two, main performs no operation on
\* the file system and no step of the conversion, and ends by printing the
\* usage message and returning 1.
C6_UsageTouchesNothing ==
    Len(argv) # 2 =>
        /\ pc \in {"main", "done"}
        /\ fsops = {}
        /\ FileSystemUntouched
        /\ jsf_path = <<>> /\ pdf_path = <<>>
        /\ data = <<>> /\ ~Decoded /\ pages = <<>>
        /\ raised = NoExc
        /\ pc = "done" => stderr = <<UsageMsg>> /\ exit = 1

C6_Witness ==
    /\ pc = "done"
    /\ Len(argv) = 3
    /\ stderr = <<UsageMsg>>
    /\ exit = 1

\* C7: decoding raises nothing and never reaches the errors="ignore"
\* fallback; the text is that of the first of utf-8-sig, utf-16, latin-1 (in
\* this order) that decodes the bytes.
C7_FirstEncodingWins ==
    Decoded =>
        /\ encoding \in {"utf-8-sig", "utf-16", "latin-1"}
        /\ pc = "open" =>
              /\ raised = NoExc
              /\ exit = -1
              /\ stderr = <<>>
              /\ IF DecodeUtf8Sig(data).ok
                 THEN encoding = "utf-8-sig" /\ text = DecodeUtf8Sig(data).text
                 ELSE /\ byteorder \in {"little", "big"}
                      /\ IF DecodeUtf16(data, byteorder = "little").ok
                         THEN /\ encoding = "utf-16"
                              /\ text = DecodeUtf16(data, byteorder = "little").text
                         ELSE /\ encoding = "latin-1"
                              /\ Len(text) = Len(data)
                              /\ \A i \in 1..Len(data) : text[i] = data[i]

C7_Witness ==
    /\ pc = "open"
    /\ encoding = "latin-1"
    /\ ~DecodeUtf8(data).ok
    /\ data = <<65, 133, 65>>
    /\ text = <<65, 133, 65>>

\* C8: for an input of zero bytes exactly one segment is yielded, the empty
\* string, and the document written has one page that holds the title line
\* and that empty segment, nothing else.
C8_EmptyInputOnePage ==
    (pc = "done" /\ exit = SuccessExit /\ Decoded /\ data = <<>>) =>
        /\ text = <<>>
        /\ rebuilt = << <<>> >>
        /\ Drawn = 1
        /\ pages = << << TitleDraw(PageHeight - MARGIN, "in.jsf"),
                         SegmentDraw(PageHeight - MARGIN - 2 * LINE_HEIGHT, <<>>) >> >>
        /\ files[pdf_path] = PdfDoc(pages)

C8_Witness ==
    /\ pc = "done"
    /\ exit = SuccessExit
    /\ Decoded
    /\ data = <<>>
    /\ files[pdf_path].kind = "pdf"
    /\ Len(files[pdf_path].pages) = 1

\* C9: wrap_lines, consumed to its end, terminates for every text and width.
C9_WrapTerminates == <>(gpc = "done")

\* C10: n >= 1 segments drawn lie on 1 page when n <= 45 and on
\* 1 + ceil((n - 45) / 47) pages otherwise; the first page holds the title and
\* at most 45 segments, every later page at most 47, and every page at least
\* one segment (no blank page at the end).
C10_PageCount ==
    (pc \in {"render", "done"} /\ Drawn >= 1) =>
        /\ Len(pages) = IF Drawn <= 45 THEN 1 ELSE 1 + ((Drawn - 45 + 46) \div 47)
        /\ SegCount(1) <= 45
        /\ Len(pages[1]) = SegCount(1) + 1
        /\ \A p \in 2..Len(pages) : SegCount(p) <= 47 /\ Len(pages[p]) = SegCount(p)
        /\ \A p \in 1..Len(pages) : SegCount(p) >= 1
        /\ \A p \in 1..(Len(pages) - 1) : SegCount(p) = IF p = 1 THEN 45 ELSE 47

C10_Witness ==
    /\ pc = "done"
    /\ exit = SuccessExit
    /\ Drawn = 92
    /\ Len(pages) = 2
    /\ SegCount(2) = 47

=============================================================================
